---- MODULE Spec2Model ----
(***************************************************************************)
(* Model of the SatelliteTracker simulation core (src/models.py and        *)
(* src/simulation.py).                                                     *)
(*                                                                         *)
(* Units.  Every length, speed and fuel quantity is kept in tenths of the  *)
(* source unit, so 0.1 fuel is 1, 5.0 fuel is 50, the satellite radius 20  *)
(* is 200 and the arena is 8000 x 6000.  Angles are whole degrees.  The    *)
(* motion step speed*cos(angle) is taken from a table of cosines in        *)
(* thousandths and rounded to the nearest tenth.  Distances are compared   *)
(* through their squares: sqrt(d2) < r  iff  d2 < r*r  for r >= 0.         *)
(* Arithmetic is exact: the rounding of the source's binary floating-point *)
(* numbers is not modelled.                                                *)
(*                                                                         *)
(* Spec is the simulation: add_satellite, tick, pop_events,                *)
(* deorbit_satellite and the control calls made on its satellites.         *)
(* SatSpec is one Satellite object under its own methods.                  *)
(* ChanceSpec is the spawn chance of tick over the tick counter.           *)
(***************************************************************************)
EXTENDS Integers, Sequences, FiniteSets, TLC

VARIABLES
    satellites,   \* Simulation._satellites : sequence of satellite records
    debris_list,  \* Simulation._debris_list : sequence of debris records
    counter,      \* DebrisField._counter
    tick_count,   \* Simulation._tick_count
    score,        \* Simulation._score
    collisions,   \* Simulation._collisions
    deorbited,    \* Simulation._deorbited
    game_over,    \* Simulation._game_over
    events,       \* Simulation._events
    last,         \* the operation that ran last, its argument and the value it returned
    calls         \* number of control calls made so far (the model bounds it)

simvars == <<satellites, debris_list, counter, tick_count, score, collisions,
             deorbited, game_over, events>>
vars == <<satellites, debris_list, counter, tick_count, score, collisions,
          deorbited, game_over, events, last, calls>>

----------------------------------------------------------------------------
(* Bounds of the model *)

MaxTick == 18
MaxSats == 2
MaxSpawn == 2
MaxCalls == 1
BusyFrom == 17
MaxSatCalls == 5
MaxChanceTick == 600

----------------------------------------------------------------------------
(* Constants of the program, in tenths *)

SATELLITE_RADIUS == 200
AREA_WIDTH == 8000
AREA_HEIGHT == 6000
WARNING_DISTANCE == 800
CLEANUP_MARGIN == 500
ANGLE_FUEL_COST == 20
SPEED_FUEL_COST == 15
DEORBIT_FUEL_COST == 50
PASSIVE_DRAIN == 1
WARNING_FUEL == 200
MIN_SPEED == 5
MAX_SPEED == 50
GRACE_TICKS == 10

Max(a, b) == IF a >= b THEN a ELSE b
Min(a, b) == IF a <= b THEN a ELSE b

----------------------------------------------------------------------------
(* models.py : CelestialObject *)

\* cos and sin of the headings the model uses, in thousandths
CosMilli(deg) ==
    CASE deg = 0 -> 1000
      [] deg = 30 -> 866
      [] deg = 90 -> 0
      [] deg = 180 -> -1000
      [] deg = 270 -> 0
      [] deg = 330 -> 866

SinMilli(deg) ==
    CASE deg = 0 -> 0
      [] deg = 30 -> 500
      [] deg = 90 -> 1000
      [] deg = 180 -> 0
      [] deg = 270 -> -1000
      [] deg = 330 -> -500

\* nearest tenth of a product expressed in thousandths of a tenth
RoundMilli(n) == (n + 500) \div 1000

deactivate_toggle(o) == [o EXCEPT !.active = ~@]

\* CelestialObject.deactivate
deactivate(o) == [o EXCEPT !.active = FALSE]

\* CelestialObject.update : one straight-line step, nothing when inactive
CelestialObject_update(o) ==
    IF ~o.active
    THEN o
    ELSE [o EXCEPT !.x = @ + RoundMilli(o.speed * CosMilli(o.angle % 360)),
                   !.y = @ + RoundMilli(o.speed * SinMilli(o.angle % 360))]

\* CelestialObject.distance_to, squared: the coordinates are added
distance_sq(a, b) == (a.x + b.x) * (a.x + b.x) + (a.y + b.y) * (a.y + b.y)

----------------------------------------------------------------------------
(* models.py : Satellite *)

\* Satellite.__init__
Satellite(name, x, y, speed, angle, fuel) ==
    [name |-> name, x |-> x, y |-> y, speed |-> speed, angle |-> angle,
     active |-> TRUE, fuel |-> fuel, status |-> "nominal"]

update_status_deactivates_dry(s) ==
    IF s.fuel <= 0
    THEN [s EXCEPT !.fuel = 0, !.status = "critical", !.active = FALSE]
    ELSE IF s.fuel < WARNING_FUEL
         THEN [s EXCEPT !.status = "warning"]
         ELSE [s EXCEPT !.status = "nominal"]

update_status_unclamped(s) ==
    IF s.fuel <= 0
    THEN [s EXCEPT !.status = "critical"]
    ELSE IF s.fuel < WARNING_FUEL
         THEN [s EXCEPT !.status = "warning"]
         ELSE [s EXCEPT !.status = "nominal"]

\* Satellite._update_status
update_status(s) ==
    IF s.fuel <= 0
    THEN [s EXCEPT !.fuel = 0, !.status = "critical"]
    ELSE IF s.fuel < WARNING_FUEL
         THEN [s EXCEPT !.status = "warning"]
         ELSE [s EXCEPT !.status = "nominal"]

change_angle_unguarded(s, new_angle) ==
    IF s.fuel < 0
    THEN s
    ELSE update_status([s EXCEPT !.angle = new_angle % 360,
                                 !.fuel = @ - ANGLE_FUEL_COST])

\* Satellite.change_angle
change_angle(s, new_angle) ==
    IF s.fuel <= 0
    THEN s
    ELSE update_status([s EXCEPT !.angle = new_angle % 360,
                                 !.fuel = @ - ANGLE_FUEL_COST])

change_speed_unbounded_below(s, new_speed) ==
    IF s.fuel <= 0
    THEN s
    ELSE update_status([s EXCEPT !.speed = Min(new_speed, MAX_SPEED),
                                 !.fuel = @ - SPEED_FUEL_COST])

\* Satellite.change_speed
change_speed(s, new_speed) ==
    IF s.fuel <= 0
    THEN s
    ELSE update_status([s EXCEPT !.speed = Max(MIN_SPEED, Min(new_speed, MAX_SPEED)),
                                 !.fuel = @ - SPEED_FUEL_COST])

deorbit_ok_strict(s) == s.fuel > DEORBIT_FUEL_COST

\* Satellite.deorbit : the value returned
deorbit_ok(s) == s.fuel >= DEORBIT_FUEL_COST

deorbit_status_first(s) ==
    IF deorbit_ok(s)
    THEN deactivate([s EXCEPT !.status = "deorbited",
                              !.fuel = @ - DEORBIT_FUEL_COST])
    ELSE [s EXCEPT !.status = "deorbited"]

\* Satellite.deorbit : the satellite after the call
deorbit(s) ==
    IF deorbit_ok(s)
    THEN deactivate([s EXCEPT !.status = "deorbited",
                              !.fuel = @ - DEORBIT_FUEL_COST])
    ELSE s

Satellite_update_drains_inactive(s) ==
    LET m == CelestialObject_update(s)
    IN  update_status([m EXCEPT !.fuel = @ - PASSIVE_DRAIN])

\* Satellite.update
Satellite_update(s) ==
    LET m == CelestialObject_update(s)
    IN  IF m.active
        THEN update_status([m EXCEPT !.fuel = @ - PASSIVE_DRAIN])
        ELSE m

----------------------------------------------------------------------------
(* models.py : Debris and DebrisField *)

\* Debris.danger_radius
danger_radius(d) ==
    CASE d.size = "small" -> 150
      [] d.size = "medium" -> 250
      [] d.size = "large" -> 400
      [] OTHER -> 150

\* the random draws of one DebrisField.generate call that the model explores
DrawCandidates ==
    { [side |-> "top", pos |-> 0, angle |-> 180, size |-> "large",
       speed |-> 30, pick |-> "Alpha"],
      [side |-> "left", pos |-> 799, angle |-> 0, size |-> "small",
       speed |-> 30, pick |-> "Alpha"],
      [side |-> "bottom", pos |-> 0, angle |-> -30, size |-> "medium",
       speed |-> 20, pick |-> "Beta"],
      [side |-> "top", pos |-> 10, angle |-> 180, size |-> "small",
       speed |-> 30, pick |-> "Gamma"] }

\* the ranges random.uniform / random.choice draw from in generate
ValidDraw(d) ==
    /\ d.side \in {"top", "bottom", "left", "right"}
    /\ d.size \in {"small", "medium", "large"}
    /\ d.speed >= 10 /\ d.speed <= 30
    /\ d.side = "top" => d.pos >= 0 /\ d.pos <= AREA_WIDTH /\ d.angle >= 150 /\ d.angle <= 210
    /\ d.side = "bottom" => d.pos >= 0 /\ d.pos <= AREA_WIDTH /\ d.angle >= -30 /\ d.angle <= 30
    /\ d.side = "left" => d.pos >= 0 /\ d.pos <= AREA_HEIGHT /\ d.angle >= -45 /\ d.angle <= 45
    /\ d.side = "right" => d.pos >= 0 /\ d.pos <= AREA_HEIGHT /\ d.angle >= 135 /\ d.angle <= 225

Draws == { d \in DrawCandidates : ValidDraw(d) }

generate_unnumbered(d, n) ==
    [name |-> [pick |-> d.pick, n |-> 0],
     x |-> CASE d.side = "top" -> d.pos
             [] d.side = "bottom" -> d.pos
             [] d.side = "left" -> 0
             [] OTHER -> AREA_WIDTH,
     y |-> CASE d.side = "top" -> 0
             [] d.side = "bottom" -> AREA_HEIGHT
             [] d.side = "left" -> d.pos
             [] OTHER -> d.pos,
     speed |-> d.speed, angle |-> d.angle, active |-> TRUE, size |-> d.size]

\* DebrisField.generate : the debris built from one draw and the counter
generate(d, n) ==
    [name |-> [pick |-> d.pick, n |-> n],
     x |-> CASE d.side = "top" -> d.pos
             [] d.side = "bottom" -> d.pos
             [] d.side = "left" -> 0
             [] OTHER -> AREA_WIDTH,
     y |-> CASE d.side = "top" -> 0
             [] d.side = "bottom" -> AREA_HEIGHT
             [] d.side = "left" -> d.pos
             [] OTHER -> d.pos,
     speed |-> d.speed, angle |-> d.angle, active |-> TRUE, size |-> d.size]

----------------------------------------------------------------------------
(* simulation.py : CollisionDetector *)

check_collision_debris_radius_ignored(s, d) ==
    distance_sq(s, d) < SATELLITE_RADIUS * SATELLITE_RADIUS

\* CollisionDetector.check_collision, obj1 a Satellite and obj2 a Debris
check_collision_debris(s, d) ==
    distance_sq(s, d) <
        (SATELLITE_RADIUS + danger_radius(d)) * (SATELLITE_RADIUS + danger_radius(d))

\* CollisionDetector.check_collision, both objects Satellites
check_collision_sats(a, b) ==
    distance_sq(a, b) < (SATELLITE_RADIUS * 2) * (SATELLITE_RADIUS * 2)

\* CollisionDetector.check_proximity_warning with the default warning distance
check_proximity_warning(s, o) ==
    distance_sq(s, o) < WARNING_DISTANCE * WARNING_DISTANCE

----------------------------------------------------------------------------
(* simulation.py : Simulation, the collision pass *)

\* the events the simulation appends (the formatted strings, by their parts)
CollisionEvent(s, d) == [kind |-> "COLLISION", sat |-> s.name, deb |-> d.name]
WarningEvent(s, d) == [kind |-> "ALERTE", sat |-> s.name, deb |-> d.name]
PairEvent(a, b) == [kind |-> "COLLISION_SATS", sat |-> a.name, sat2 |-> b.name]
DeorbitEvent(s) == [kind |-> "DESORBITE", sat |-> s.name]
NoFuelEvent(s) == [kind |-> "CARBURANT_INSUFFISANT", sat |-> s.name]

\* [x for x in seq if x.active], as the positions of the entries kept
ActiveIndices(seq) ==
    SelectSeq([i \in 1..Len(seq) |-> i], LAMBDA i : seq[i].active)

ActiveCount_all(sats) == Len(sats)

\* len(active_sats)
ActiveCount(sats) == Len(ActiveIndices(sats))

\* the (satellite, debris) pairs in the order of the nested for loops
SatDebrisPairs(as, ad) ==
    [k \in 1..(Len(as) * Len(ad)) |->
        <<as[((k - 1) \div Len(ad)) + 1], ad[((k - 1) % Len(ad)) + 1]>>]

\* the pairs (active_sats[i], active_sats[j]), i < j, in the order of the loops
SatPairs(as) ==
    SelectSeq([k \in 1..(Len(as) * Len(as)) |->
                  <<((k - 1) \div Len(as)) + 1, ((k - 1) % Len(as)) + 1>>],
              LAMBDA p : p[1] < p[2])

sat_debris_step_warns_too(st, i, j) ==
    LET hit == IF check_collision_debris(st.sats[i], st.debs[j])
               THEN [st EXCEPT !.sats[i] = deactivate(@),
                               !.debs[j] = deactivate(@),
                               !.coll = @ + 1,
                               !.ev = Append(@, CollisionEvent(st.sats[i], st.debs[j]))]
               ELSE st
    IN  IF check_proximity_warning(st.sats[i], st.debs[j])
        THEN [hit EXCEPT !.ev = Append(@, WarningEvent(st.sats[i], st.debs[j]))]
        ELSE hit

\* body of the satellite x debris loop ; st = [sats, debs, coll, ev]
sat_debris_step(st, i, j) ==
    IF check_collision_debris(st.sats[i], st.debs[j])
    THEN [st EXCEPT !.sats[i] = deactivate(@),
                    !.debs[j] = deactivate(@),
                    !.coll = @ + 1,
                    !.ev = Append(@, CollisionEvent(st.sats[i], st.debs[j]))]
    ELSE IF check_proximity_warning(st.sats[i], st.debs[j])
         THEN [st EXCEPT !.ev = Append(@, WarningEvent(st.sats[i], st.debs[j]))]
         ELSE st

sat_pair_step_counts_one(st, i, j) ==
    IF check_collision_sats(st.sats[i], st.sats[j])
    THEN [st EXCEPT !.sats[i] = deactivate(@),
                    !.sats[j] = deactivate(@),
                    !.coll = @ + 1,
                    !.ev = Append(@, PairEvent(st.sats[i], st.sats[j]))]
    ELSE st

\* body of the satellite pair loop
sat_pair_step(st, i, j) ==
    IF check_collision_sats(st.sats[i], st.sats[j])
    THEN [st EXCEPT !.sats[i] = deactivate(@),
                    !.sats[j] = deactivate(@),
                    !.coll = @ + 2,
                    !.ev = Append(@, PairEvent(st.sats[i], st.sats[j]))]
    ELSE st

RECURSIVE sat_debris_loop(_, _)
sat_debris_loop(st, pairs) ==
    IF pairs = <<>>
    THEN st
    ELSE sat_debris_loop(sat_debris_step(st, Head(pairs)[1], Head(pairs)[2]),
                         Tail(pairs))

RECURSIVE sat_pair_loop(_, _, _)
sat_pair_loop(st, as, pairs) ==
    IF pairs = <<>>
    THEN st
    ELSE sat_pair_loop(sat_pair_step(st, as[Head(pairs)[1]], as[Head(pairs)[2]]),
                       as, Tail(pairs))

check_all_collisions_second_snapshot(st) ==
    LET as == ActiveIndices(st.sats)
        ad == ActiveIndices(st.debs)
        mid == sat_debris_loop(st, SatDebrisPairs(as, ad))
        as2 == ActiveIndices(mid.sats)
    IN  sat_pair_loop(mid, as2, SatPairs(as2))

\* Simulation._check_all_collisions : both snapshots are taken once, first
check_all_collisions(st) ==
    LET as == ActiveIndices(st.sats)
        ad == ActiveIndices(st.debs)
    IN  sat_pair_loop(sat_debris_loop(st, SatDebrisPairs(as, ad)), as, SatPairs(as))

cleanup_out_of_bounds_keeps_border(debs) ==
    SelectSeq(debs, LAMBDA d :
        /\ d.active
        /\ -CLEANUP_MARGIN <= d.x /\ d.x <= AREA_WIDTH + CLEANUP_MARGIN
        /\ -CLEANUP_MARGIN <= d.y /\ d.y <= AREA_HEIGHT + CLEANUP_MARGIN)

\* Simulation._cleanup_out_of_bounds
cleanup_out_of_bounds(debs) ==
    SelectSeq(debs, LAMBDA d :
        /\ d.active
        /\ -CLEANUP_MARGIN < d.x /\ d.x < AREA_WIDTH + CLEANUP_MARGIN
        /\ -CLEANUP_MARGIN < d.y /\ d.y < AREA_HEIGHT + CLEANUP_MARGIN)

----------------------------------------------------------------------------
(* simulation.py : Simulation.tick *)

\* The model lets a debris be drawn in the first tick and from tick BusyFrom
\* on, and lets control calls be made from tick BusyFrom on ; in the ticks
\* between, the simulation only runs.
SpawnOpen == tick_count = 0 \/ tick_count >= BusyFrom
CallsOpen == tick_count >= BusyFrom

tick_returns_early_never(g) == FALSE

\* the early return of tick
tick_returns_early(g) == g

game_over_reached_ignoring_grace(n_active, t) == n_active = 0

game_over_reached_at_grace(n_active, t) == n_active = 0 /\ t >= GRACE_TICKS

\* the game-over test at the end of tick
game_over_reached(n_active, t) == n_active = 0 /\ t > GRACE_TICKS

spawn_chance_linear(t) == 500 + t * 5

\* spawn_chance = min(0.05 + tick_count * 0.0005, 0.3), in ten-thousandths
spawn_chance(t) == Min(500 + t * 5, 3000)

\* random.random() < spawn_chance, random.random() being any value of [0, 1) :
\* a spawn is possible when the chance is above 0, no spawn when it is below 1 ;
\* <<>> is no spawn, <<d>> a spawn with draw d
SpawnChoices ==
    LET p == spawn_chance(tick_count + 1)
    IN  (IF p < 10000 THEN {<<>>} ELSE {}) \cup
        (IF 0 < p /\ counter < MaxSpawn /\ SpawnOpen
         THEN { <<d>> : d \in Draws } ELSE {})

\* the debris list after the spawn step
spawn(debs, sp, n) == IF sp = <<>> THEN debs ELSE Append(debs, generate(sp[1], n))

\* the state tick leaves, for one outcome of the spawn step
tick_result(sp) ==
    LET moved_sats == [i \in 1..Len(satellites) |-> Satellite_update(satellites[i])]
        moved_debs == [j \in 1..Len(debris_list) |-> CelestialObject_update(debris_list[j])]
        st == check_all_collisions(
                  [sats |-> moved_sats,
                   debs |-> spawn(moved_debs, sp, counter),
                   coll |-> collisions,
                   ev |-> events])
        n_active == ActiveCount(st.sats)
    IN  [sats |-> st.sats,
         debs |-> cleanup_out_of_bounds(st.debs),
         counter |-> IF sp = <<>> THEN counter ELSE counter + 1,
         tick_count |-> tick_count + 1,
         score |-> score + n_active,
         coll |-> st.coll,
         game_over |-> IF game_over_reached(n_active, tick_count + 1)
                       THEN TRUE ELSE game_over,
         ev |-> st.ev]

tick ==
    /\ tick_returns_early(game_over) \/ tick_count < MaxTick
    /\ IF tick_returns_early(game_over)
       THEN /\ UNCHANGED simvars
            /\ last' = [op |-> "tick", arg |-> <<>>, ret |-> "None"]
       ELSE \E sp \in SpawnChoices :
              LET r == tick_result(sp)
              IN  /\ satellites' = r.sats
                  /\ debris_list' = r.debs
                  /\ counter' = r.counter
                  /\ tick_count' = r.tick_count
                  /\ score' = r.score
                  /\ collisions' = r.coll
                  /\ game_over' = r.game_over
                  /\ events' = r.ev
                  /\ UNCHANGED deorbited
                  /\ last' = [op |-> "tick", arg |-> sp, ret |-> "None"]
    /\ UNCHANGED calls

----------------------------------------------------------------------------
(* simulation.py : the other operations of Simulation *)

\* the satellites add_satellite is called with
SatPool ==
    { Satellite("A", 0, 0, 0, 0, 10),
      Satellite("B", 570, 0, 10, 180, 5),
      Satellite("A", -3000, -2000, 15, 270, 215) }

\* Simulation.add_satellite ; its caller, MainWindow._init_simulation, seeds the
\* roster before the timer that drives tick is started
add_satellite ==
    /\ Len(satellites) < MaxSats
    /\ tick_count = 0
    /\ \E s \in SatPool : satellites' = Append(satellites, s)
    /\ last' = [op |-> "add_satellite", arg |-> "None", ret |-> "None"]
    /\ UNCHANGED <<debris_list, counter, tick_count, score, collisions,
                   deorbited, game_over, events, calls>>

pop_events_result_aliased(ev) == [ret |-> <<>>, left |-> <<>>]

\* events = self._events.copy() ; self._events.clear() ; return events :
\* the list returned and the queue left behind
pop_events_result(ev) == [ret |-> ev, left |-> <<>>]

\* Simulation.pop_events
pop_events ==
    /\ events' = pop_events_result(events).left
    /\ last' = [op |-> "pop_events", arg |-> "None", ret |-> pop_events_result(events).ret]
    /\ UNCHANGED <<satellites, debris_list, counter, tick_count, score,
                   collisions, deorbited, game_over, calls>>

\* the satellites the loop of deorbit_satellite stops at
Targets(name) ==
    { i \in 1..Len(satellites) : satellites[i].name = name /\ satellites[i].active }

\* the first of them
FirstTarget(name) == CHOOSE i \in Targets(name) : \A k \in Targets(name) : i <= k

NameInputs == {"A", "B"}

deorbit_counters_dedicated(c, d) == [collisions |-> c, deorbited |-> d + 1]

\* the counters after a successful deorbit : the collision counter is the one
\* incremented, the deorbit counter is left alone
deorbit_counters(c, d) == [collisions |-> c + 1, deorbited |-> d]

\* Simulation.deorbit_satellite
deorbit_satellite(name) ==
    /\ calls' = calls + 1
    /\ IF Targets(name) = {}
       THEN /\ last' = [op |-> "deorbit_satellite", arg |-> name, ret |-> "False"]
            /\ UNCHANGED simvars
       ELSE LET i == FirstTarget(name)
                s == satellites[i]
            IN  IF deorbit_ok(s)
                THEN /\ satellites' = [satellites EXCEPT ![i] = deorbit(s)]
                     /\ collisions' = deorbit_counters(collisions, deorbited).collisions
                     /\ deorbited' = deorbit_counters(collisions, deorbited).deorbited
                     /\ events' = Append(events, DeorbitEvent(s))
                     /\ last' = [op |-> "deorbit_satellite", arg |-> name, ret |-> "True"]
                     /\ UNCHANGED <<debris_list, counter, tick_count, score,
                                    game_over>>
                ELSE /\ satellites' = [satellites EXCEPT ![i] = deorbit(s)]
                     /\ events' = Append(events, NoFuelEvent(s))
                     /\ last' = [op |-> "deorbit_satellite", arg |-> name, ret |-> "False"]
                     /\ UNCHANGED <<debris_list, counter, tick_count, score,
                                    collisions, deorbited, game_over>>

----------------------------------------------------------------------------
(* models.py : the control calls made on a satellite of the simulation *)

AngleInputs == {-90, 450}
SpeedInputs == {0, 30, 90}

\* satellites[i].change_angle(a)
call_change_angle(i, a) ==
    /\ calls' = calls + 1
    /\ satellites' = [satellites EXCEPT ![i] = change_angle(@, a)]
    /\ last' = [op |-> "change_angle", arg |-> a, ret |-> "None"]
    /\ UNCHANGED <<debris_list, counter, tick_count, score, collisions,
                   deorbited, game_over, events>>

\* satellites[i].change_speed(v)
call_change_speed(i, v) ==
    /\ calls' = calls + 1
    /\ satellites' = [satellites EXCEPT ![i] = change_speed(@, v)]
    /\ last' = [op |-> "change_speed", arg |-> v, ret |-> "None"]
    /\ UNCHANGED <<debris_list, counter, tick_count, score, collisions,
                   deorbited, game_over, events>>

\* satellites[i].deorbit()
call_deorbit(i) ==
    /\ calls' = calls + 1
    /\ satellites' = [satellites EXCEPT ![i] = deorbit(@)]
    /\ last' = [op |-> "deorbit", arg |-> "None",
                ret |-> IF deorbit_ok(satellites[i]) THEN "True" ELSE "False"]
    /\ UNCHANGED <<debris_list, counter, tick_count, score, collisions,
                   deorbited, game_over, events>>

----------------------------------------------------------------------------
(* The simulation after Simulation.__init__, and its steps *)

Init ==
    /\ satellites = <<>>
    /\ debris_list = <<>>
    /\ counter = 0
    /\ tick_count = 0
    /\ score = 0
    /\ collisions = 0
    /\ deorbited = 0
    /\ game_over = FALSE
    /\ events = <<>>
    /\ last = [op |-> "init", arg |-> "None", ret |-> "None"]
    /\ calls = 0

Next ==
    \/ tick
    \/ add_satellite
    \/ pop_events
    \/ \E name \in NameInputs : CallsOpen /\ calls < MaxCalls /\ deorbit_satellite(name)
    \/ \E i \in 1..Len(satellites) : CallsOpen /\ calls < MaxCalls /\ call_change_angle(i, 450)
    \/ \E i \in 1..Len(satellites) : CallsOpen /\ calls < MaxCalls /\ call_change_speed(i, 90)

Spec == Init /\ [][Next]_vars

----------------------------------------------------------------------------
(* One Satellite object under its own methods *)

\* satellites[i].update()
call_update(i) ==
    /\ calls' = calls + 1
    /\ satellites' = [satellites EXCEPT ![i] = Satellite_update(@)]
    /\ last' = [op |-> "update", arg |-> "None", ret |-> "None"]
    /\ UNCHANGED <<debris_list, counter, tick_count, score, collisions,
                   deorbited, game_over, events>>

\* satellites[i].deactivate()
call_deactivate(i) ==
    /\ calls' = calls + 1
    /\ satellites' = [satellites EXCEPT ![i] = deactivate(@)]
    /\ last' = [op |-> "deactivate", arg |-> "None", ret |-> "None"]
    /\ UNCHANGED <<debris_list, counter, tick_count, score, collisions,
                   deorbited, game_over, events>>

\* the fuel values satellites are constructed with
FuelInputs == {0, 1, 10, 49, 50, 65, 200, 215}

SatInit ==
    /\ \E f \in FuelInputs : satellites = <<Satellite("A", 0, 0, 10, -90, f)>>
    /\ debris_list = <<>>
    /\ counter = 0
    /\ tick_count = 0
    /\ score = 0
    /\ collisions = 0
    /\ deorbited = 0
    /\ game_over = FALSE
    /\ events = <<>>
    /\ last = [op |-> "init", arg |-> "None", ret |-> "None"]
    /\ calls = 0

SatNext ==
    \/ \E a \in AngleInputs : calls < MaxSatCalls /\ call_change_angle(1, a)
    \/ \E v \in SpeedInputs : calls < MaxSatCalls /\ call_change_speed(1, v)
    \/ calls < MaxSatCalls /\ call_deorbit(1)
    \/ calls < MaxSatCalls /\ call_update(1)
    \/ calls < MaxSatCalls /\ call_deactivate(1)

SatSpec == SatInit /\ [][SatNext]_vars

----------------------------------------------------------------------------
(* The spawn chance of tick, over the tick counter *)

\* self._tick_count += 1, then spawn_chance is computed from the new counter
spawn_chance_step ==
    /\ tick_count < MaxChanceTick
    /\ tick_count' = tick_count + 1
    /\ last' = [op |-> "spawn_chance", arg |-> tick_count + 1,
                ret |-> spawn_chance(tick_count + 1)]
    /\ UNCHANGED <<satellites, debris_list, counter, score, collisions,
                   deorbited, game_over, events, calls>>

ChanceInit ==
    /\ satellites = <<>>
    /\ debris_list = <<>>
    /\ counter = 0
    /\ tick_count \in 0..MaxChanceTick
    /\ score = 0
    /\ collisions = 0
    /\ deorbited = 0
    /\ game_over = FALSE
    /\ events = <<>>
    /\ last = [op |-> "init", arg |-> "None", ret |-> "None"]
    /\ calls = 0

ChanceNext == spawn_chance_step

ChanceSpec == ChanceInit /\ [][ChanceNext]_vars

----------------------------------------------------------------------------
(* Claims C1 and C2 : game over and the tick that follows it *)

\* C1 : game_over becomes true exactly at the first executed tick at whose end
\* no satellite is active and tick_count > 10 : every tick that advances the
\* tick counter leaves game_over true iff that holds at its end, no other step
\* changes game_over, and once true it stays true.
C1_GameOverExactlyAtFirstEmptyTick ==
    [][ /\ game_over => game_over'
        /\ game_over' # game_over => tick_count' = tick_count + 1
        /\ tick_count' # tick_count =>
              (game_over' <=>
                  /\ \A i \in 1..Len(satellites') : ~satellites'[i].active
                  /\ tick_count' > 10) ]_vars

\* game over reached at tick 18, later than the first tick past the grace
\* period, in a simulation that has satellites
C1_Witness ==
    /\ game_over
    /\ tick_count = 18
    /\ satellites # <<>>

\* C2 : a tick made while game_over is true changes nothing of the simulation.
C2_TickAfterGameOverIsNoOp ==
    [][ (game_over /\ last'.op = "tick") => UNCHANGED simvars ]_vars

\* a tick was made after game over : the only satellite was lost to a debris
\* in tick 18, where it had come to x = 39.0, and that tick ended the game and
\* queued the collision event ; the queue has been drained since, and a tick
\* followed the drain
C2_Witness ==
    /\ game_over
    /\ tick_count = 18
    /\ last.op = "tick"
    /\ events = <<>>
    /\ collisions = 1
    /\ Len(satellites) = 1
    /\ satellites[1].x = 390 /\ satellites[1].y = 0
    /\ ~satellites[1].active
    /\ satellites[1].status # "deorbited"

----------------------------------------------------------------------------
(* Claims C3 to C8 : one satellite under its methods (SatSpec) *)

\* C3 : the fuel of a satellite constructed with fuel >= 0 is >= 0 in every
\* state between two operations.
C3_FuelNeverNegative ==
    \A i \in 1..Len(satellites) : satellites[i].fuel >= 0

\* the first call, a change_speed that took effect on less than 1.5 fuel, left
\* the fuel at 0 : it went below 0 inside the call
C3_Witness ==
    /\ last.op = "change_speed"
    /\ calls = 1
    /\ satellites[1].speed = 50
    /\ satellites[1].fuel = 0

\* C4 : whenever the status is not deorbited it is the one the fuel determines :
\* critical iff fuel = 0, warning iff 0 < fuel < 20, nominal iff fuel >= 20.
C4_StatusDeterminedByFuel ==
    \A i \in 1..Len(satellites) :
        satellites[i].status # "deorbited" =>
            /\ satellites[i].status = "critical" <=> satellites[i].fuel = 0
            /\ satellites[i].status = "warning" <=>
                  (0 < satellites[i].fuel /\ satellites[i].fuel < 200)
            /\ satellites[i].status = "nominal" <=> satellites[i].fuel >= 200

\* C5 : a satellite whose status is deorbited keeps that status in every step.
C5_DeorbitedIsSticky ==
    [][ \A i \in 1..Len(satellites) :
            satellites[i].status = "deorbited" =>
                satellites'[i].status = "deorbited" ]_vars

\* C7 : deorbit() returns true iff the fuel before the call is >= 5.0 ; on
\* success only active, status and fuel change (false, deorbited, fuel - 5.0),
\* on failure the satellite is unchanged.
C7_DeorbitContract ==
    [][ last'.op = "deorbit" =>
          /\ last'.ret = "True" <=> satellites[1].fuel >= 50
          /\ last'.ret = "True" =>
                satellites'[1] = [satellites[1] EXCEPT
                                     !.active = FALSE,
                                     !.status = "deorbited",
                                     !.fuel = satellites[1].fuel - 50]
          /\ last'.ret = "False" => satellites'[1] = satellites[1] ]_vars

\* a deorbit succeeded on exactly 5.0 fuel
C7_Witness ==
    /\ last.op = "deorbit"
    /\ last.ret = "True"
    /\ calls = 1
    /\ satellites[1].fuel = 0
    /\ satellites[1].status = "deorbited"
    /\ ~satellites[1].active

\* C8 : change_angle and change_speed leave the satellite unchanged when the
\* fuel before the call is <= 0 ; otherwise the angle becomes new_angle mod 360
\* and the fuel drops by 2.0, respectively the speed becomes new_speed clamped
\* to [0.5, 5.0] and the fuel drops by 1.5, the fuel being 0 if that is negative.
C8_ControlContract ==
    [][ /\ last'.op = "change_angle" =>
              IF satellites[1].fuel <= 0
              THEN satellites'[1] = satellites[1]
              ELSE /\ satellites'[1].angle = last'.arg % 360
                   /\ satellites'[1].fuel =
                         IF satellites[1].fuel - 20 < 0 THEN 0
                         ELSE satellites[1].fuel - 20
        /\ last'.op = "change_speed" =>
              IF satellites[1].fuel <= 0
              THEN satellites'[1] = satellites[1]
              ELSE /\ satellites'[1].speed =
                         IF last'.arg < 5 THEN 5
                         ELSE IF last'.arg > 50 THEN 50 ELSE last'.arg
                   /\ satellites'[1].fuel =
                         IF satellites[1].fuel - 15 < 0 THEN 0
                         ELSE satellites[1].fuel - 15 ]_vars

\* the first call, change_angle(-90) on less than 2.0 fuel, took effect :
\* heading 270 and fuel 0
C8_Witness ==
    /\ last.op = "change_angle"
    /\ last.arg = -90
    /\ calls = 1
    /\ satellites[1].angle = 270
    /\ satellites[1].fuel = 0
    /\ satellites[1].status = "critical"

----------------------------------------------------------------------------
(* Claims C6, C9 and C10 : the simulation (Spec) *)

\* C6 : no step makes an inactive satellite or debris active again, and
\* deactivate() applied to an entity already deactivated changes nothing.
C6_ActiveIsOneWay ==
    [][ /\ \A i \in 1..Len(satellites) :
              /\ ~satellites[i].active => ~satellites'[i].active
              /\ ~deactivate(satellites[i]).active
              /\ deactivate(deactivate(satellites[i])) = deactivate(satellites[i])
        /\ \A j \in 1..Len(debris_list) :
              /\ \A k \in 1..Len(debris_list') :
                    (debris_list'[k].name = debris_list[j].name
                        /\ ~debris_list[j].active) => ~debris_list'[k].active
              /\ ~deactivate(debris_list[j]).active
              /\ deactivate(deactivate(debris_list[j])) = deactivate(debris_list[j])
      ]_vars

\* a satellite lost in a collision is still inactive at tick 18, after a
\* control call made on the simulation
C6_Witness ==
    /\ tick_count = 18
    /\ last.op = "change_speed"
    /\ \E i \in 1..Len(satellites) :
          ~satellites[i].active /\ satellites[i].status # "deorbited"

\* C9 : a deorbit_satellite(name) that returns false changes nothing but the
\* event queue ; it fails exactly when no active satellite has that name (no
\* event) or the first active one has fuel < 5.0 (one failure event).
C9_FailedDeorbitChangesOnlyEvents ==
    [][ last'.op = "deorbit_satellite" =>
          LET Match(i) == satellites[i].name = last'.arg /\ satellites[i].active
              First(i) == Match(i) /\ \A k \in 1..(i - 1) : ~Match(k)
              Found == \E i \in 1..Len(satellites) : Match(i)
              LowFuel == \E i \in 1..Len(satellites) :
                             First(i) /\ satellites[i].fuel < 50
          IN  /\ last'.ret = "False" <=> (~Found \/ LowFuel)
              /\ last'.ret = "False" =>
                    /\ UNCHANGED <<satellites, debris_list, counter, tick_count,
                                   score, collisions, deorbited, game_over>>
                    /\ ~Found => events' = events
                    /\ LowFuel =>
                          events' = Append(events,
                              [kind |-> "CARBURANT_INSUFFISANT", sat |-> last'.arg])
      ]_vars

\* a deorbit_satellite failed for lack of fuel and queued its event
C9_Witness ==
    /\ last.op = "deorbit_satellite"
    /\ last.ret = "False"
    /\ events # <<>>
    /\ events[Len(events)].kind = "CARBURANT_INSUFFISANT"
    /\ \E i \in 1..Len(satellites) :
          satellites[i].name = last.arg /\ satellites[i].active

----------------------------------------------------------------------------
(* Claim C11 : the event queue (Spec) *)

\* C11 : pop_events returns every event queued since the previous drain, in
\* the order of their appending, and leaves the queue empty, so that a
\* pop_events made right after another returns the empty list ; every other
\* step keeps the queue as a prefix of the queue it leaves : it only appends.
C11_PopEventsDrainsInOrder ==
    [][ /\ last'.op = "pop_events" =>
              /\ last'.ret = events
              /\ events' = <<>>
              /\ last.op = "pop_events" => last'.ret = <<>>
        /\ last'.op # "pop_events" =>
              /\ Len(events') >= Len(events)
              /\ SubSeq(events', 1, Len(events)) = events ]_vars

\* a drain returned, in this order, an event queued by a tick and an event
\* queued later by deorbit_satellite, and left the queue empty
C11_Witness ==
    /\ last.op = "pop_events"
    /\ Len(last.ret) >= 2
    /\ last.ret[1].kind \in {"COLLISION", "ALERTE"}
    /\ last.ret[Len(last.ret)].kind \in {"DESORBITE", "CARBURANT_INSUFFISANT"}
    /\ events = <<>>

----------------------------------------------------------------------------
(* Claim C12 : the heading of every entity (Spec) *)

\* C12 : the heading angle of every satellite and of every debris lies in
\* [0, 360) in every reachable state.
C12_AnglesNormalised ==
    /\ \A i \in 1..Len(satellites) :
          0 <= satellites[i].angle /\ satellites[i].angle < 360
    /\ \A j \in 1..Len(debris_list) :
          0 <= debris_list[j].angle /\ debris_list[j].angle < 360

----------------------------------------------------------------------------
(* Claim C13 : the speed of a satellite (SatSpec) *)

\* C13 : a change_speed made with fuel > 0 leaves the speed in [0.5, 5.0]
\* whatever value was asked for ; a change_speed made with fuel <= 0 and every
\* other operation leave the speed as it was, so the speed stays in that range
\* from the first change_speed that takes effect.
C13_SpeedClampedAndOnlySetByChangeSpeed ==
    [][ /\ (last'.op = "change_speed" /\ satellites[1].fuel > 0) =>
              (5 <= satellites'[1].speed /\ satellites'[1].speed <= 50)
        /\ (last'.op = "change_speed" /\ satellites[1].fuel <= 0) =>
              satellites'[1].speed = satellites[1].speed
        /\ last'.op # "change_speed" =>
              satellites'[1].speed = satellites[1].speed ]_vars

\* a change_speed(0) took effect, the speed became 0.5, and it is still 0.5
\* after a later update() moved the satellite
C13_Witness ==
    /\ last.op = "update"
    /\ satellites[1].active
    /\ satellites[1].speed = 5
    /\ satellites[1].y # 0

----------------------------------------------------------------------------
(* Claim C14 : the spawn chance (ChanceSpec) *)

\* C14 : the spawn chance p(t) = min(0.05 + 0.0005 t, 0.3) never exceeds 0.3,
\* is 0.3 exactly when t >= 500, and does not decrease from t to t + 1.
C14_SpawnChanceSaturatesAt500 ==
    [][ last'.op = "spawn_chance" =>
          /\ last'.ret <= 3000
          /\ last'.ret = 3000 <=> last'.arg >= 500
          /\ last.op = "spawn_chance" =>
                (last'.arg = last.arg + 1 /\ last.ret <= last'.ret) ]_vars

\* the chance was 0.2995 at t = 499 and has just been computed as 0.3 at t = 500
C14_Witness ==
    /\ last.op = "spawn_chance"
    /\ last.arg = 500
    /\ last.ret = 3000
    /\ spawn_chance(499) = 2995

----------------------------------------------------------------------------
(* Claims C15 to C20 : what one executed tick does (Spec) *)

\* a step is an executed tick when tick ran while game_over was false
ExecutedTick == last'.op = "tick" /\ ~game_over

\* the events the step appended
NewEvents == SubSeq(events', Len(events) + 1, Len(events'))

CountIn(seq, e) == Cardinality({ k \in 1..Len(seq) : seq[k] = e })

\* the debris at the start of the collision pass of an executed tick : the
\* debris of the list, moved, then the one spawned in this tick if any
PassDebris ==
    spawn([j \in 1..Len(debris_list) |-> CelestialObject_update(debris_list[j])],
          last'.arg, counter)

\* the metric of section 4.1, squared : the coordinates are summed
Metric2(a, b) == (a.x + b.x) * (a.x + b.x) + (a.y + b.y) * (a.y + b.y)

\* satellite i and debris j, both active at the start of the pass, are closer
\* than 20 + the danger radius of the debris (15, 25 or 40)
DebrisHit(i, j) ==
    /\ satellites[i].active
    /\ PassDebris[j].active
    /\ LET reach == CASE PassDebris[j].size = "small" -> 350
                      [] PassDebris[j].size = "medium" -> 450
                      [] PassDebris[j].size = "large" -> 600
       IN  Metric2(satellites'[i], PassDebris[j]) < reach * reach

\* satellites i < k, both active at the start of the pass, are closer than 40
SatsHit(i, k) ==
    /\ i < k
    /\ satellites[i].active /\ satellites[k].active
    /\ Metric2(satellites'[i], satellites'[k]) < 400 * 400

DebrisHits ==
    { p \in (1..Len(satellites)) \X (1..Len(PassDebris)) : DebrisHit(p[1], p[2]) }

SatsHits ==
    { p \in (1..Len(satellites)) \X (1..Len(satellites)) : SatsHit(p[1], p[2]) }

C17_TickCountAndScore ==
    [][ /\ ExecutedTick =>
              /\ tick_count' = tick_count + 1
              /\ score' = score + Cardinality({ i \in 1..Len(satellites') :
                                                  satellites'[i].active })
        /\ ~ExecutedTick => (tick_count' = tick_count /\ score' = score)
        /\ score' >= score ]_vars

\* of two satellites one was lost to a debris in the first tick and the other
\* scored : the score after one tick is 1
C17_Witness ==
    /\ tick_count = 1
    /\ last.op = "tick"
    /\ Len(satellites) = 2
    /\ collisions = 1
    /\ ActiveCount(satellites) = 1
    /\ score = 1

\* C18 : the satellite pair loop runs over the satellites that were active
\* at the start of the pass : in an executed tick, a satellite that meets a
\* debris and another satellite, all active at the start of the pass, gets
\* both a debris collision event and a pair collision event, and the tick
\* raises the collision counter by at least 3.
C18_DeactivatedSatelliteStillPairs ==
    [][ ExecutedTick =>
          \A p \in DebrisHits : \A q \in SatsHits :
              (p[1] = q[1] \/ p[1] = q[2]) =>
                  /\ \E k \in 1..Len(NewEvents) :
                        /\ NewEvents[k].kind = "COLLISION"
                        /\ NewEvents[k].sat = satellites[p[1]].name
                  /\ \E k \in 1..Len(NewEvents) :
                        /\ NewEvents[k].kind = "COLLISION_SATS"
                        /\ NewEvents[k].sat = satellites[q[1]].name
                        /\ NewEvents[k].sat2 = satellites[q[2]].name
                  /\ collisions' >= collisions + 3 ]_vars

\* at tick 18 the only debris ever spawned hit both satellites and the two
\* satellites hit each other : three events in one tick, the pair event
\* after the two debris events, and a counter of 1 + 1 + 2
C18_Witness ==
    /\ tick_count = 18
    /\ last.op = "tick"
    /\ last.arg # <<>>
    /\ counter = 1
    /\ collisions = 4
    /\ Len(satellites) = 2
    /\ ~satellites[1].active /\ ~satellites[2].active
    /\ Len(events) >= 3
    /\ events[Len(events) - 2].kind = "COLLISION"
    /\ events[Len(events) - 2].sat = satellites[1].name
    /\ events[Len(events) - 1].kind = "COLLISION"
    /\ events[Len(events) - 1].sat = satellites[2].name
    /\ events[Len(events)] = [kind |-> "COLLISION_SATS", sat |-> satellites[1].name,
                              sat2 |-> satellites[2].name]

\* the debris of the pass that no satellite hit, by their positions in PassDebris
Unhit == { j \in 1..Len(PassDebris) : \A i \in 1..Len(satellites) : ~DebrisHit(i, j) }

\* position outside the arena extended by 50 on every side
Outside(d) == d.x < -500 \/ d.x > 8000 + 500 \/ d.y < -500 \/ d.y > 6000 + 500

\* position outside that region or on its border
OutsideOrOnBorder(d) ==
    d.x <= -500 \/ d.x >= 8000 + 500 \/ d.y <= -500 \/ d.y >= 6000 + 500

\* no step shortens or reorders the satellite list : add_satellite appends to
\* it, every other step keeps its length and the name at every position
SatelliteListOnlyGrows ==
    /\ Len(satellites') >= Len(satellites)
    /\ \A i \in 1..Len(satellites) : satellites'[i].name = satellites[i].name
    /\ last'.op = "add_satellite" =>
          SubSeq(satellites', 1, Len(satellites)) = satellites
    /\ last'.op # "add_satellite" => Len(satellites') = Len(satellites)

\* C19 : after an executed tick the debris list holds no inactive debris and
\* no debris outside the arena extended by 50 on every side, and it holds
\* every other debris of the collision pass, in the order they had ; no step
\* shortens or reorders the satellite list.
C19_DebrisKeptUnlessInactiveOrOutside ==
    [][ /\ ExecutedTick =>
              /\ \A k \in 1..Len(debris_list') :
                    debris_list'[k].active /\ ~Outside(debris_list'[k])
              /\ [k \in 1..Len(debris_list') |-> debris_list'[k].name]
                   = LET kept == SelectSeq([j \in 1..Len(PassDebris) |-> j],
                                           LAMBDA j : j \in Unhit
                                                      /\ ~Outside(PassDebris[j]))
                     IN  [k \in 1..Len(kept) |-> PassDebris[kept[k]].name]
        /\ SatelliteListOnlyGrows ]_vars

\* C19, amended : after an executed tick the debris list holds exactly the
\* debris of the collision pass that are active and strictly inside the arena
\* extended by 50 on every side (-50 < x < 850 and -50 < y < 650), in the
\* order they had : a debris on the border of that region is removed too ; no
\* step shortens or reorders the satellite list.
C19_DebrisKeptIffActiveAndStrictlyInside ==
    [][ /\ ExecutedTick =>
              /\ \A k \in 1..Len(debris_list') :
                    debris_list'[k].active /\ ~OutsideOrOnBorder(debris_list'[k])
              /\ [k \in 1..Len(debris_list') |-> debris_list'[k].name]
                   = LET kept == SelectSeq([j \in 1..Len(PassDebris) |-> j],
                                           LAMBDA j : j \in Unhit
                                                      /\ ~OutsideOrOnBorder(PassDebris[j]))
                     IN  [k \in 1..Len(kept) |-> PassDebris[kept[k]].name]
        /\ SatelliteListOnlyGrows ]_vars

\* at tick 18 the debris spawned on the top edge in the first tick, heading
\* 180 at speed 3.0, reached x = -51.0 or x = -50.0 and is gone, without any
\* collision ; the debris spawned in this tick is in the list
C19_Witness ==
    /\ tick_count = 18
    /\ last.op = "tick"
    /\ last.arg # <<>>
    /\ counter = 2
    /\ collisions = 0
    /\ Len(debris_list) = 1
    /\ debris_list[1].name.n = 1
    /\ satellites # <<>>

\* satellite i and debris j, both active at the start of the pass, do not
\* collide and are closer than 80
Warned(i, j) ==
    /\ satellites[i].active
    /\ PassDebris[j].active
    /\ ~DebrisHit(i, j)
    /\ Metric2(satellites'[i], PassDebris[j]) < 800 * 800

----------------------------------------------------------------------------
(* Claim C21 : the names of the debris (Spec) *)

\* C21 : the generator's counter changes only when a debris is generated, by
\* exactly 1, and the debris generated carries the counter's value before the
\* call as the suffix of its name ; so every name in the debris list and in
\* the events has a suffix below the counter, and no two debris of the list
\* share a name, whatever pool names were picked.
C21_DebrisNamesDistinct ==
    [][ /\ counter' # counter =>
              (ExecutedTick /\ last'.arg # <<>> /\ counter' = counter + 1)
        /\ (ExecutedTick /\ last'.arg # <<>>) =>
              /\ counter' = counter + 1
              /\ PassDebris[Len(PassDebris)].name.n = counter
              /\ PassDebris[Len(PassDebris)].name.pick = last'.arg[1].pick
        /\ \A j \in 1..Len(debris_list') : debris_list'[j].name.n < counter'
        /\ \A j \in 1..Len(debris_list') : \A k \in 1..Len(debris_list') :
              j # k => debris_list'[j].name # debris_list'[k].name
        /\ \A k \in 1..Len(events') :
              events'[k].kind \in {"COLLISION", "ALERTE"} =>
                  events'[k].deb.n < counter' ]_vars

\* two debris drawn with the same pool name are in the list, named with the
\* suffixes 0 and 1
C21_Witness ==
    /\ counter = 2
    /\ Len(debris_list) = 2
    /\ debris_list[1].name.pick = debris_list[2].name.pick
    /\ debris_list[1].name.n = 0
    /\ debris_list[2].name.n = 1

----------------------------------------------------------------------------
(* Claim C22 : Satellite.update (SatSpec) *)

\* C22 : update() leaves an inactive satellite as it was ; on an active one
\* it adds speed * cos(angle) to x and speed * sin(angle) to y, takes 0.1 off
\* the fuel, stopping at 0, and sets the status the new fuel determines,
\* leaving name, speed, angle and the active flag alone.
C22_UpdateMovesAndDrains ==
    [][ last'.op = "update" =>
          IF ~satellites[1].active
          THEN satellites'[1] = satellites[1]
          ELSE LET s == satellites[1]
                   fuel_left == IF s.fuel - 1 > 0 THEN s.fuel - 1 ELSE 0
               IN  satellites'[1] =
                     [name |-> s.name,
                      x |-> s.x + RoundMilli(s.speed * CosMilli(s.angle % 360)),
                      y |-> s.y + RoundMilli(s.speed * SinMilli(s.angle % 360)),
                      speed |-> s.speed,
                      angle |-> s.angle,
                      active |-> TRUE,
                      fuel |-> fuel_left,
                      status |-> IF fuel_left = 0 THEN "critical"
                                 ELSE IF fuel_left < 200 THEN "warning"
                                 ELSE "nominal"] ]_vars

\* a satellite built with fuel 5.0 was updated once (one step of 1.0 along
\* heading -90, fuel 4.9), deactivated, and updated again : the second update
\* changed nothing
C22_Witness ==
    /\ last.op = "update"
    /\ calls = 3
    /\ ~satellites[1].active
    /\ satellites[1].x = 0 /\ satellites[1].y = -10
    /\ satellites[1].fuel = 49
    /\ satellites[1].status = "warning"

----------------------------------------------------------------------------
(* Claims C23 and C24 : what deactivates a satellite, and game over (Spec) *)

\* satellite i met a debris or another satellite in the collision pass of
\* the executed tick
HitInTick(i) ==
    /\ ExecutedTick
    /\ \/ \E j \in 1..Len(PassDebris) : DebrisHit(i, j)
       \/ \E k \in 1..Len(satellites) : SatsHit(i, k) \/ SatsHit(k, i)

\* C23 : a satellite goes from active to inactive only in a tick in whose
\* collision pass it is hit, or by a deorbit_satellite that returns true and
\* leaves it deorbited ; an active satellite that an executed tick does not
\* hit, whatever its fuel, is active after the tick, has made its step, has
\* added to the score, and the tick does not end the game.
C23_OnlyCollisionOrDeorbitDeactivates ==
    [][ \A i \in 1..Len(satellites) :
          /\ (satellites[i].active /\ ~satellites'[i].active) =>
                \/ HitInTick(i)
                \/ /\ last'.op = "deorbit_satellite"
                   /\ last'.ret = "True"
                   /\ satellites[i].name = last'.arg
                   /\ satellites[i].fuel >= 50
                   /\ satellites'[i].status = "deorbited"
          /\ (ExecutedTick /\ satellites[i].active /\ ~HitInTick(i)) =>
                /\ satellites'[i].active
                /\ satellites'[i].x = satellites[i].x
                       + RoundMilli(satellites[i].speed * CosMilli(satellites[i].angle % 360))
                /\ satellites'[i].y = satellites[i].y
                       + RoundMilli(satellites[i].speed * SinMilli(satellites[i].angle % 360))
                /\ score' >= score + 1
                /\ ~game_over' ]_vars

\* the one satellite, built with fuel 0.5 at x = 57.0 and never hit, is out of
\* fuel since tick 5 ; at tick 18 it is active, has made all 18 steps of 1.0
\* and has scored at every tick, and the game is not over
C23_Witness ==
    /\ tick_count = 18
    /\ ~game_over
    /\ Len(satellites) = 1
    /\ satellites[1].active
    /\ satellites[1].fuel = 0
    /\ satellites[1].status = "critical"
    /\ satellites[1].x = 390
    /\ score = 18
    /\ collisions = 0

\* C24 : add_satellite being called before the first tick only, in every
\* state where game_over is true no satellite is active and tick_count > 10 ;
\* game_over is false in every state with tick_count <= 10, with or without
\* satellites.
C24_GameOverImpliesNoneActivePastGrace ==
    /\ game_over =>
          /\ \A i \in 1..Len(satellites) : ~satellites[i].active
          /\ tick_count > 10
    /\ tick_count <= 10 => ~game_over

\* both satellites were lost in the first tick, and the game is over only
\* since tick 11
C24_Witness ==
    /\ game_over
    /\ tick_count = 11
    /\ Len(satellites) = 2
    /\ score = 0
    /\ collisions >= 2

====
